---- MODULE Spec2Model ----
(***************************************************************************)
(* A model of timetable.py: the nextbus archive pipeline                   *)
(*                                                                         *)
(*    readlines -> bodies() -> query_data() -> sorted() -> locations()     *)
(*                                                                         *)
(* and of csv() and read_csv, which write and read the records it yields.  *)
(*                                                                         *)
(* Units.  Times are integers in milliseconds (the feed's lastTime is in   *)
(* milliseconds, secsSinceReport in seconds), so the 3 second window of    *)
(* locations() is SkewSeconds * MsPerSecond.  Latitudes and longitudes are *)
(* integers in units of half the comparison tolerance (5e-8 degree), so    *)
(* the tolerance 0.0000001 is CoordTol units.  Floating-point rounding is  *)
(* not modelled.                                                           *)
(*                                                                         *)
(* Text.  A line is a record [ws, pre, head, attrs, tail]: the text        *)
(*    ws ++ pre ++ head ++ attrs joined by one blank ++ tail ++ newline    *)
(* where ws is leading white space, and an attribute token is a record     *)
(* [name, eq, lq, val, rq] for the text  name (=)* (")? val (")?  with eq  *)
(* the number of "=" characters in it.  str.strip, startswith, endswith,   *)
(* split and int/float are defined on this representation below.           *)
(***************************************************************************)
EXTENDS Integers, Sequences, FiniteSets, TLC

\* ---------------------------------------------------------------- bounds
\* Records fed to the loop of locations() in SpecDedup.
MaxFed == 5
\* Lines read by bodies() in SpecFramer.
MaxLines == 6

\* ------------------------------------------------------ program constants
\* locations(): "abs(loc.timestamp - prev.timestamp) < 3" (seconds).
SkewSeconds == 3
\* query_data(): "last_time = 0.001 * int(last_time_str)".
MsPerSecond == 1000
\* locations(): "abs(loc.lat - prev.lat) < 0.0000001", in units of 5e-8 degree.
CoordTol == 2
\* locations(): "if len(prevs) > 3: prevs.pop(0)".
HistoryLen == 3

VARIABLES
  input,               \* the lines of self.fs that readlines() has yet to hand out
  consumed,            \* the lines readlines() has handed to bodies() so far
  body,                \* bodies(): the local list `body`
  framed,              \* the bodies that bodies() has yielded so far
  batches,             \* the (query_timestamp, locations) pairs query_data() has
                       \* yielded to sorted() so far, in the order yielded
  order,               \* locations(): the records of sorted(...) and of each
                       \* sorted(vehicle_locations), in the order the loops take them
  taken,               \* how many records of `order` the loops have taken
  pc,                  \* where the generators stand: "bodies" (sorted() is
                       \* draining query_data()), "raised" (an exception left
                       \* the generators), "loop" (locations() is between two
                       \* records), "yielded" (suspended at `yield loc`), "end"
  query_timestamp,     \* locations(): the loop variable query_timestamp
  loc,                 \* locations(): the loop variable loc
  previous_locations,  \* Archive.previous_locations: id -> list of locations
  out,                 \* the locations that locations() has yielded so far
  warnings             \* the records logging.warning() was called for

vars == <<input, consumed, body, framed, batches, order, taken, pc,
          query_timestamp, loc, previous_locations, out, warnings>>

Abs(x) == IF x < 0 THEN -x ELSE x

Last(s) == s[Len(s)]

\* ------------------------------------------------------------------ text
\* An attribute token  name="val"  (eq = 1, both quotes present).
Attr(name, val) == [name |-> name, eq |-> 1, lq |-> TRUE, val |-> val, rq |-> TRUE]

\* A line of text; see the head of the module.
Line(ws, pre, head, attrs, tail) ==
  [ws |-> ws, pre |-> pre, head |-> head, attrs |-> attrs, tail |-> tail]

\* A line holding just the literal s, and the same line indented.
Lit(s) == Line("", "", s, <<>>, "")
Indented(l) == [l EXCEPT !.ws = "  "]

\* str.strip(): the text without the white space at its edges (the leading
\* blanks and the newline).
strip(l) == [l EXCEPT !.ws = ""]

\* s == lit for a stripped line s.
TextEquals(s, lit) ==
  s.ws = "" /\ s.pre = "" /\ s.head = lit /\ s.attrs = <<>> /\ s.tail = ""

XmlHeader == "<?xml version=\"1.0\" encoding=\"utf-8\" ?>"

\* ------------------------------------------------------------- bodies()
\* Variant: the lines are compared as read, without strip().
bodies_frame_unstripped(buf, line) ==
  LET b == Append(buf, line) IN
  IF TextEquals(b[1], "<html>")
  THEN [body |-> IF TextEquals(line, "</html>") THEN <<>> ELSE b, yield |-> <<>>]
  ELSE IF TextEquals(line, "</body>")
       THEN [body |-> <<>>, yield |-> <<b>>]
       ELSE [body |-> b, yield |-> <<>>]

\* Variant: a </body> line closes a body inside an error page too.
bodies_frame_no_html(buf, line) ==
  LET b == Append(buf, line) IN
  IF TextEquals(strip(line), "</body>")
  THEN [body |-> <<>>, yield |-> <<b>>]
  ELSE [body |-> IF TextEquals(strip(b[1]), "<html>")
                    /\ TextEquals(strip(line), "</html>") THEN <<>> ELSE b,
        yield |-> <<>>]

\* Variant: the error page test looks at the line read, not at body[0].
bodies_frame_html_line(buf, line) ==
  LET b == Append(buf, line) IN
  IF TextEquals(strip(line), "<html>")
  THEN [body |-> b, yield |-> <<>>]
  ELSE IF TextEquals(strip(line), "</html>")
       THEN [body |-> <<>>, yield |-> <<>>]
       ELSE IF TextEquals(strip(line), "</body>")
            THEN [body |-> <<>>, yield |-> <<b>>]
            ELSE [body |-> b, yield |-> <<>>]

\* Variant: the buffer is not emptied after a body is yielded.
bodies_frame_no_reset(buf, line) ==
  LET b == Append(buf, line) IN
  IF TextEquals(strip(b[1]), "<html>")
  THEN [body |-> IF TextEquals(strip(line), "</html>") THEN <<>> ELSE b,
        yield |-> <<>>]
  ELSE IF TextEquals(strip(line), "</body>")
       THEN [body |-> b, yield |-> <<b>>]
       ELSE [body |-> b, yield |-> <<>>]

\* One iteration of the loop of bodies() on the buffer `buf` and the line
\* read: the new buffer and the body yielded, if any (a sequence of 0 or 1).
bodies_frame(buf, line) ==
  LET b == Append(buf, line) IN
  IF TextEquals(strip(b[1]), "<html>")
  THEN [body |-> IF TextEquals(strip(line), "</html>") THEN <<>> ELSE b,
        yield |-> <<>>]
  ELSE IF TextEquals(strip(line), "</body>")
       THEN [body |-> <<>>, yield |-> <<b>>]
       ELSE [body |-> b, yield |-> <<>>]

\* ---------------------------------------------------------- locations()
vehicle_location(timestamp, id, route, dir, lat, lon, heading, speed) ==
  [timestamp |-> timestamp, id |-> id, route |-> route, dir |-> dir,
   lat |-> lat, lon |-> lon, heading |-> heading, speed |-> speed]

\* dir is None (<<>>) or a string s (<<s>>).
None == <<>>

\* The value of `loc` before the loop has bound it.
NoLoc == vehicle_location(0, 0, "", None, 0, 0, 0, 0)

\* The vehicle ids of the model; previous_locations is a dict, modelled as a
\* function on them with <<>> for a missing key (setdefault(loc.id, [])).
VehicleIds == {7, 8}

\* Variant: the heading is compared even at speed 0.
is_duplicate_heading_always(l, prev) ==
  /\ Abs(l.timestamp - prev.timestamp) < SkewSeconds * MsPerSecond
  /\ l.route = prev.route
  /\ Abs(l.lat - prev.lat) < CoordTol
  /\ Abs(l.lon - prev.lon) < CoordTol
  /\ l.speed = prev.speed
  /\ l.heading = prev.heading

\* The condition under any(...) for one prev.
is_duplicate(l, prev) ==
  /\ Abs(l.timestamp - prev.timestamp) < SkewSeconds * MsPerSecond
  /\ l.route = prev.route
  /\ Abs(l.lat - prev.lat) < CoordTol
  /\ Abs(l.lon - prev.lon) < CoordTol
  /\ l.speed = prev.speed
  /\ (l.heading = prev.heading \/ l.speed = 0)

\* Variant: only the most recent entry is compared.
seen_recently_last_only(l, prevs) ==
  prevs # <<>> /\ is_duplicate(l, Last(prevs))

\* any(... for prev in prevs)
seen_recently(l, prevs) ==
  \E i \in 1..Len(prevs) : is_duplicate(l, prevs[i])

\* Variant: equal timestamps pass without a warning.
out_of_order_strict(l, prevs) ==
  prevs # <<>> /\ l.timestamp < Last(prevs).timestamp

\* "if prevs and loc.timestamp <= prevs[-1].timestamp"
out_of_order(l, prevs) ==
  prevs # <<>> /\ l.timestamp <= Last(prevs).timestamp

\* Variant: prevs.pop() drops the newest entry.
track_pop_newest(prevs, l) ==
  LET p == Append(prevs, l) IN
  IF Len(p) > HistoryLen THEN SubSeq(p, 1, Len(p) - 1) ELSE p

\* "prevs.append(loc); if len(prevs) > 3: prevs.pop(0)"
track(prevs, l) ==
  LET p == Append(prevs, l) IN
  IF Len(p) > HistoryLen THEN Tail(p) ELSE p

\* Variant: a rejected record is appended to the history all the same.
locations_step_track_rejected(l, qts) ==
  /\ pc = "loop"
  /\ loc' = l
  /\ query_timestamp' = qts
  /\ LET prevs == previous_locations[l.id] IN
     IF seen_recently(l, prevs)
     THEN /\ pc' = "loop"
          /\ previous_locations' =
               [previous_locations EXCEPT ![l.id] = track(@, l)]
          /\ UNCHANGED <<out, warnings>>
     ELSE /\ warnings' = IF out_of_order(l, prevs)
                         THEN Append(warnings, [query |-> qts, loc |-> l])
                         ELSE warnings
          /\ out' = Append(out, l)
          /\ pc' = "yielded"
          /\ UNCHANGED previous_locations

\* One iteration of the inner loop of locations() for the record l of the
\* batch polled at qts, up to its `continue` or its `yield loc`.
locations_step(l, qts) ==
  /\ pc = "loop"
  /\ loc' = l
  /\ query_timestamp' = qts
  /\ LET prevs == previous_locations[l.id] IN
     IF seen_recently(l, prevs)
     THEN /\ pc' = "loop"
          /\ UNCHANGED <<out, warnings>>
     ELSE /\ warnings' = IF out_of_order(l, prevs)
                         THEN Append(warnings, [query |-> qts, loc |-> l])
                         ELSE warnings
          /\ out' = Append(out, l)
          /\ pc' = "yielded"
  /\ UNCHANGED previous_locations

\* Variant: one history for all vehicles.
locations_resume_shared ==
  /\ pc = "yielded"
  /\ previous_locations' =
       [v \in VehicleIds |-> track(previous_locations[v], loc)]
  /\ pc' = "loop"
  /\ UNCHANGED <<input, consumed, body, framed, batches, order, taken,
                 query_timestamp, loc, out, warnings>>

\* The generator resumed after `yield loc`: the record joins the history.
locations_resume ==
  /\ pc = "yielded"
  /\ previous_locations' =
       [previous_locations EXCEPT ![loc.id] = track(@, loc)]
  /\ pc' = "loop"
  /\ UNCHANGED <<input, consumed, body, framed, batches, order, taken,
                 query_timestamp, loc, out, warnings>>

\* --------------------------------------------------------- query_data()
\* s.startswith(head + name + '="') for a stripped line s, e.g.
\* '<vehicle id="': the line opens with head and its first token is name="...
starts_with_attr(s, head, name) ==
  /\ s.pre = ""
  /\ s.head = head
  /\ s.attrs # <<>>
  /\ s.attrs[1].name = name
  /\ s.attrs[1].eq = 1
  /\ s.attrs[1].lq

\* s.endswith('"' + tail) for a stripped line s, e.g. '"/>'.
ends_with_quote(s, tail) ==
  /\ s.tail = tail
  /\ s.attrs # <<>>
  /\ Last(s.attrs).rq

\* line.strip().endswith('<?xml version="1.0" encoding="utf-8" ?>')
ends_with_xml_header(s) ==
  s.head = XmlHeader /\ s.attrs = <<>> /\ s.tail = ""

\* s.startswith('<Error shouldRetry="')
starts_with_error(s) == starts_with_attr(s, "<Error ", "shouldRetry")

\* The number of '"' characters of a line whose head and tail hold none:
\* len(line.split('"')) - 1.
RECURSIVE quote_count(_)
quote_count(attrs) ==
  IF attrs = <<>> THEN 0
  ELSE (IF Head(attrs).lq THEN 1 ELSE 0) + (IF Head(attrs).rq THEN 1 ELSE 0)
       + quote_count(Tail(attrs))

\* int(): the integers of the texts it accepts; any other text raises
\* ValueError.
int ==
  ("0" :> 0) @@ ("1" :> 1) @@ ("2" :> 2) @@ ("4" :> 4) @@ ("5" :> 5)
  @@ ("7" :> 7) @@ ("07" :> 7) @@ ("8" :> 8) @@ ("10" :> 10) @@ ("95" :> 95)
  @@ ("5000" :> 5000) @@ ("6000" :> 6000) @@ ("20000" :> 20000)
  @@ ("-1" :> -1)

\* float(), for the coordinate texts of the model (see Units).
float ==
  ("37.0000000" :> 0) @@ ("37.00000005" :> 1) @@ ("37.0000001" :> 2)
  @@ ("-122.0000000" :> 0) @@ ("-122.0000001" :> -2)
  \* the texts str() writes, read back by read_csv: coordinates, and
  \* timestamps in seconds (milliseconds in the model)
  @@ ("37.0" :> 0) @@ ("-122.0" :> 0)
  @@ ("2.0" :> 2000) @@ ("3.0" :> 3000) @@ ("4.0" :> 4000) @@ ("5.0" :> 5000)

\* The second-to-last line is <lastTime time="N"/> with N an integer text:
\* the two asserts, the 3-way unpacking of split('"') and int() pass.
last_time_ok(line) ==
  LET s == strip(line) IN
  /\ starts_with_attr(s, "<lastTime ", "time")
  /\ ends_with_quote(s, "/>")
  /\ quote_count(line.attrs) = 2
  /\ Len(line.attrs) = 1
  /\ line.attrs[1].val \in DOMAIN int

\* last_time = 0.001 * int(last_time_str), in milliseconds.
last_time_of(line) == int[line.attrs[1].val]

\* The dict attrs built from a vehicle line: attrs[name], for a name in it.
attr_value(attrs, name) ==
  attrs[CHOOSE i \in 1..Len(attrs) : attrs[i].name = name].val

attr_names(attrs) == {attrs[i].name : i \in 1..Len(attrs)}

\* The keys the constructor call reads with attrs[...] (KeyError if absent),
\* those it converts with int() and with float().
RequiredKeys ==
  {"secsSinceReport", "id", "routeTag", "lat", "lon", "heading", "speedKmHr"}
IntKeys == {"secsSinceReport", "id", "heading", "speedKmHr"}
FloatKeys == {"lat", "lon"}

\* One vehicle line passes its assert, the attribute loop (one "=" per
\* token, no name twice, every value in quotes) and the constructor call.
vehicle_line_ok(line) ==
  LET s == strip(line)
      attrs == s.attrs
  IN /\ starts_with_attr(s, "<vehicle ", "id")
     /\ ends_with_quote(s, "/>")
     /\ \A i \in 1..Len(attrs) : attrs[i].eq = 1
     /\ \A i, j \in 1..Len(attrs) : i < j => attrs[i].name # attrs[j].name
     /\ \A i \in 1..Len(attrs) : attrs[i].lq /\ attrs[i].rq
     /\ RequiredKeys \subseteq attr_names(attrs)
     /\ \A k \in IntKeys : attr_value(attrs, k) \in DOMAIN int
     /\ \A k \in FloatKeys : attr_value(attrs, k) \in DOMAIN float

\* The vehicle_location built from a vehicle line, its timestamp still the
\* relative secsSinceReport (in seconds).
vehicle_of(line) ==
  LET attrs == strip(line).attrs IN
  vehicle_location(
    int[attr_value(attrs, "secsSinceReport")],
    int[attr_value(attrs, "id")],
    attr_value(attrs, "routeTag"),
    IF "dirTag" \in attr_names(attrs)
      THEN <<attr_value(attrs, "dirTag")>> ELSE None,
    float[attr_value(attrs, "lat")],
    float[attr_value(attrs, "lon")],
    int[attr_value(attrs, "heading")],
    int[attr_value(attrs, "speedKmHr")])

\* Variant: an id that comes twice is not noticed.
vehicles_ok_no_id_check(lines) ==
  \A i \in 1..Len(lines) : vehicle_line_ok(lines[i])

\* The loop over body[2:-2]: every line decodes and no id comes twice.
vehicles_ok(lines) ==
  /\ \A i \in 1..Len(lines) : vehicle_line_ok(lines[i])
  /\ \A i, j \in 1..Len(lines) :
       i < j => vehicle_of(lines[i]).id # vehicle_of(lines[j]).id

\* vehicle_locations.values(), as a set (the ids are distinct).
vehicle_locations_of(lines) == {vehicle_of(lines[i]) : i \in 1..Len(lines)}

SetMin(S) == CHOOSE x \in S : \A y \in S : x <= y

SetMax(S) == CHOOSE x \in S : \A y \in S : x >= y

\* Variant: the query is dated at the feed's clock, no age added.
batch_no_age(last_time, vls) ==
  [query_timestamp |-> last_time,
   locs |-> {[l EXCEPT !.timestamp = last_time - MsPerSecond * l.timestamp] : l \in vls}]

\* Variant: the age of the oldest report is added, not of the newest.
batch_latest_age(last_time, vls) ==
  LET qts == last_time + MsPerSecond * SetMax({l.timestamp : l \in vls})
  IN [query_timestamp |-> qts,
      locs |-> {[l EXCEPT !.timestamp = qts - MsPerSecond * l.timestamp] : l \in vls}]

\* "query_timestamp = last_time + min(loc.timestamp for loc in ...)" and the
\* set of "loc._replace(timestamp=query_timestamp - loc.timestamp)".
batch(last_time, vls) ==
  LET qts == last_time + MsPerSecond * SetMin({l.timestamp : l \in vls})
  IN [query_timestamp |-> qts,
      locs |-> {[l EXCEPT !.timestamp = qts - MsPerSecond * l.timestamp] : l \in vls}]

\* body[xml_header[-1]:], for a body with a header line.
HeaderIndexes(b) == {i \in 1..Len(b) : ends_with_xml_header(strip(b[i]))}

\* Variant: the body is cut at its first header line.
last_segment_first(b) == SubSeq(b, SetMin(HeaderIndexes(b)), Len(b))

last_segment(b) == SubSeq(b, SetMax(HeaderIndexes(b)), Len(b))

\* Variant: the assert on body[-2] is missing.
is_error_batch_unchecked(seg) ==
  /\ Len(seg) >= 3
  /\ starts_with_error(strip(seg[3]))

\* An error batch: body[2] opens an Error element and body[-2] is </Error>.
is_error_batch(seg) ==
  /\ Len(seg) >= 3
  /\ starts_with_error(strip(seg[3]))
  /\ TextEquals(strip(seg[Len(seg) - 1]), "</Error>")

\* One iteration of the loop of query_data() on the body b that bodies()
\* yielded: whether an exception is raised (IndexError, AssertionError,
\* ValueError or KeyError; none is caught), and the batch yielded, if any
\* (a sequence of 0 or 1).
Raise == [raised |-> TRUE, yield |-> <<>>]
Yield(bs) == [raised |-> FALSE, yield |-> bs]

\* Variant: a vehicle line that does not decode is left out of the batch.
query_data_body_skips_bad_lines(b) ==
  IF HeaderIndexes(b) = {} THEN Raise
  ELSE LET seg == last_segment(b)
           n == Len(seg)
       IN
       IF n < 2 THEN Raise
       ELSE IF ~(/\ starts_with_attr(strip(seg[2]), "<body ", "copyright")
                 /\ ends_with_quote(strip(seg[2]), ">")) THEN Raise
       ELSE IF ~TextEquals(strip(seg[n]), "</body>") THEN Raise
       ELSE IF n < 3 THEN Raise
       ELSE IF starts_with_error(strip(seg[3]))
            THEN IF is_error_batch(seg) THEN Yield(<<>>) ELSE Raise
       ELSE IF ~last_time_ok(seg[n - 1]) THEN Raise
       ELSE LET all == SubSeq(seg, 3, n - 2)
                lines == SelectSeq(all, vehicle_line_ok) IN
            IF ~vehicles_ok(lines) THEN Raise
            ELSE IF lines = <<>> THEN Yield(<<>>)
            ELSE Yield(<<batch(last_time_of(seg[n - 1]),
                               vehicle_locations_of(lines))>>)

query_data_body(b) ==
  IF HeaderIndexes(b) = {} THEN Raise
  ELSE LET seg == last_segment(b)
           n == Len(seg)
       IN
       IF n < 2 THEN Raise
       ELSE IF ~(/\ starts_with_attr(strip(seg[2]), "<body ", "copyright")
                 /\ ends_with_quote(strip(seg[2]), ">")) THEN Raise
       ELSE IF ~TextEquals(strip(seg[n]), "</body>") THEN Raise
       ELSE IF n < 3 THEN Raise
       ELSE IF starts_with_error(strip(seg[3]))
            THEN IF is_error_batch(seg) THEN Yield(<<>>) ELSE Raise
       ELSE IF ~last_time_ok(seg[n - 1]) THEN Raise
       ELSE LET lines == SubSeq(seg, 3, n - 2) IN
            IF ~vehicles_ok(lines) THEN Raise
            ELSE IF lines = <<>> THEN Yield(<<>>)
            ELSE Yield(<<batch(last_time_of(seg[n - 1]),
                               vehicle_locations_of(lines))>>)

\* ------------------------------------------------------------ SpecDedup
\* locations() on an arbitrary record sequence.  Every record sequence is
\* one the loop can meet: put each record r in a batch of its own, polled
\* every PollInterval; the batch's body has lastTime = r.timestamp and
\* secsSinceReport = (query_timestamp - r.timestamp) / 1000, so that
\* query_data() yields (query_timestamp, {r}) and sorted() keeps the order.
PollInterval == 10 * MsPerSecond

L0 == vehicle_location(0, 7, "A", <<"A_0">>, 0, 0, 10, 0)

FeedLocs ==
  { L0,
    [L0 EXCEPT !.timestamp = 2000, !.heading = 95],
    [L0 EXCEPT !.timestamp = 3000],
    [L0 EXCEPT !.route = "B"],
    [L0 EXCEPT !.lat = 1],
    [L0 EXCEPT !.lat = 2],
    [L0 EXCEPT !.lon = 2],
    [L0 EXCEPT !.speed = 5],
    [L0 EXCEPT !.speed = 5, !.heading = 95],
    [L0 EXCEPT !.id = 8] }

\* The number of records the loop has taken so far.
Fed == query_timestamp \div PollInterval

InitDedup ==
  /\ input = <<>>
  /\ batches = <<>>
  /\ order = <<>>
  /\ taken = 0
  /\ consumed = <<>>
  /\ body = <<>>
  /\ framed = <<>>
  /\ pc = "loop"
  /\ query_timestamp = 0
  /\ loc = NoLoc
  /\ previous_locations = [v \in VehicleIds |-> <<>>]
  /\ out = <<>>
  /\ warnings = <<>>

Feed(l) ==
  /\ Fed < MaxFed
  /\ locations_step(l, query_timestamp + PollInterval)
  /\ UNCHANGED <<input, consumed, body, framed, batches, order, taken>>

NextDedup ==
  \/ \E l \in FeedLocs : Feed(l)
  \/ locations_resume

SpecDedup == InitDedup /\ [][NextDedup]_vars

\* ----------------------------------------------------------- SpecFramer
\* bodies() on an arbitrary line sequence, its consumer keeping what it
\* yields in `framed`.
HtmlOpen == Lit("<html>")
HtmlClose == Lit("</html>")
BodyClose == Lit("</body>")

FramerLines ==
  { HtmlOpen, HtmlClose, BodyClose, Indented(BodyClose), Indented(HtmlOpen),
    Lit(XmlHeader) }

InitFramer ==
  /\ input = <<>>
  /\ batches = <<>>
  /\ order = <<>>
  /\ taken = 0
  /\ consumed = <<>>
  /\ body = <<>>
  /\ framed = <<>>
  /\ pc = "bodies"
  /\ query_timestamp = 0
  /\ loc = NoLoc
  /\ previous_locations = [v \in VehicleIds |-> <<>>]
  /\ out = <<>>
  /\ warnings = <<>>

Frame(line) ==
  /\ pc = "bodies"
  /\ Len(consumed) < MaxLines
  /\ consumed' = Append(consumed, line)
  /\ LET r == bodies_frame(body, line) IN
       /\ body' = r.body
       /\ framed' = framed \o r.yield
  /\ UNCHANGED <<input, batches, order, taken, pc, query_timestamp, loc,
                 previous_locations, out, warnings>>

\* Variant: at the end of the input a non-empty buffer is yielded.
FrameEndFlushes ==
  /\ pc = "bodies"
  /\ pc' = "end"
  /\ framed' = IF body = <<>> THEN framed ELSE Append(framed, body)
  /\ body' = <<>>
  /\ UNCHANGED <<input, consumed, batches, order, taken, query_timestamp,
                 loc, previous_locations, out, warnings>>

\* readlines() is exhausted: the for loop of bodies() ends and the generator
\* returns, whatever the buffer holds.
FrameEnd ==
  /\ pc = "bodies"
  /\ pc' = "end"
  /\ UNCHANGED <<input, consumed, body, framed, batches, order, taken,
                 query_timestamp, loc, previous_locations, out, warnings>>

NextFramer ==
  \/ \E line \in FramerLines : Frame(line)
  \/ FrameEnd

SpecFramer == InitFramer /\ [][NextFramer]_vars

\* ----------------------------------------------------------------- Spec
\* The whole pipeline, Archive.locations() pulled to its end by csv(), on an
\* input that is a concatenation of captured responses.
Xml == Lit(XmlHeader)
BodyOpen == Line("", "", "<body ", <<Attr("copyright", "NextBus")>>, ">")
ErrorOpen == Line("", "", "<Error ", <<Attr("shouldRetry", "true")>>, ">")
ErrorClose == Lit("</Error>")
ErrorOneLine ==
  Line("", "", "<Error ", <<Attr("shouldRetry", "true")>>, ">text</Error>")
Text == Indented(Lit("text"))
LastTime(ms) == Line("", "", "<lastTime ", <<Attr("time", ms)>>, "/>")
Vehicle(id, lat, secs, heading, speed) ==
  Line("", "", "<vehicle ",
       <<Attr("id", id), Attr("routeTag", "A"), Attr("dirTag", "A_0"),
         Attr("lat", lat), Attr("lon", "-122.0000000"),
         Attr("secsSinceReport", secs), Attr("predictable", "true"),
         Attr("heading", heading), Attr("speedKmHr", speed)>>,
       "/>")
\* A vehicle line without its heading attribute.
VehicleNoHeading ==
  Line("", "", "<vehicle ",
       <<Attr("id", "7"), Attr("routeTag", "A"),
         Attr("lat", "37.0000000"), Attr("lon", "-122.0000000"),
         Attr("secsSinceReport", "0"), Attr("speedKmHr", "0")>>,
       "/>")
\* A capture cut in the middle of a vehicle line, the retry's header after it.
CutThenHeader == Line("", "<vehicle id=\"8\" rou", XmlHeader, <<>>, "")

Responses ==
  { \* polled at 7.0 s: vehicle 7 reported 2 s before
    <<Xml, BodyOpen, Vehicle("7", "37.0000000", "2", "10", "0"),
      LastTime("5000"), Indented(BodyClose)>>,
    \* polled at 6.0 s: vehicle 7 at the same place, turned, reported 1 s
    \* before, and vehicle 8, reported 2 s before
    <<Xml, BodyOpen, Vehicle("7", "37.0000000", "1", "95", "0"),
      Vehicle("8", "37.0000000", "2", "10", "5"), LastTime("5000"), BodyClose>>,
    \* polled at 20.0 s: vehicle 7 has moved
    <<Xml, BodyOpen, Vehicle("7", "37.0000001", "0", "10", "5"),
      LastTime("20000"), BodyClose>>,
    \* an error batch, its Error element on three lines
    <<Xml, BodyOpen, ErrorOpen, Text, ErrorClose, BodyClose>>,
    \* an error batch, its Error element on one line
    <<Xml, BodyOpen, ErrorOneLine, BodyClose>>,
    \* an error page
    <<HtmlOpen, Text, HtmlClose>>,
    \* a vehicle line without heading
    <<Xml, BodyOpen, VehicleNoHeading, LastTime("5000"), BodyClose>>,
    \* a capture that lost its header
    <<BodyOpen, Vehicle("8", "37.0000000", "0", "10", "5"), LastTime("6000"),
      BodyClose>>,
    \* a truncated capture and its retry
    \* (polled at 9.0 s: vehicle 7 reported 4 s before, moving)
    <<Xml, BodyOpen, CutThenHeader, BodyOpen,
      Vehicle("7", "37.0000000", "4", "10", "5"), LastTime("5000"), BodyClose>> }

\* Responses in the input.
MaxResponses == 3

RECURSIVE Concat(_)
Concat(ss) == IF ss = <<>> THEN <<>> ELSE Head(ss) \o Concat(Tail(ss))

Inputs ==
  {Concat(rs) : rs \in UNION {[1..n -> Responses] : n \in 0..MaxResponses}}

Init ==
  /\ input \in Inputs
  /\ consumed = <<>>
  /\ body = <<>>
  /\ framed = <<>>
  /\ batches = <<>>
  /\ order = <<>>
  /\ taken = 0
  /\ pc = "bodies"
  /\ query_timestamp = 0
  /\ loc = NoLoc
  /\ previous_locations = [v \in VehicleIds |-> <<>>]
  /\ out = <<>>
  /\ warnings = <<>>

\* Variant: a body that fails to decode is skipped.
ReadLineSkipsMalformed ==
  /\ pc = "bodies"
  /\ input # <<>>
  /\ input' = Tail(input)
  /\ consumed' = Append(consumed, Head(input))
  /\ LET r == bodies_frame(body, Head(input)) IN
       /\ body' = r.body
       /\ framed' = framed \o r.yield
       /\ IF r.yield = <<>>
          THEN UNCHANGED <<batches, pc>>
          ELSE LET q == query_data_body(r.yield[1]) IN
               /\ batches' = batches \o q.yield
               /\ pc' = "bodies"
  /\ UNCHANGED <<order, taken, query_timestamp, loc, previous_locations,
                 out, warnings>>

\* sorted(self.query_data()) pulls one more line through bodies(); a body
\* that bodies() yields is decoded by query_data() before the next line is
\* read, and an exception there leaves all three generators.
ReadLine ==
  /\ pc = "bodies"
  /\ input # <<>>
  /\ input' = Tail(input)
  /\ consumed' = Append(consumed, Head(input))
  /\ LET r == bodies_frame(body, Head(input)) IN
       /\ body' = r.body
       /\ framed' = framed \o r.yield
       /\ IF r.yield = <<>>
          THEN UNCHANGED <<batches, pc>>
          ELSE LET q == query_data_body(r.yield[1]) IN
               /\ batches' = batches \o q.yield
               /\ pc' = IF q.raised THEN "raised" ELSE "bodies"
  /\ UNCHANGED <<order, taken, query_timestamp, loc, previous_locations,
                 out, warnings>>

\* The order of two vehicle_location tuples: by timestamp, then by id.  The
\* ids of one batch are distinct (they were keys of one dict), so the
\* comparison never reaches the fields after id.
loc_less(a, b) ==
  \/ a.timestamp < b.timestamp
  \/ a.timestamp = b.timestamp /\ a.id < b.id

\* sorted(vehicle_locations)
sorted_locations(S) ==
  CHOOSE s \in [1..Cardinality(S) -> S] :
    \A i, j \in 1..Cardinality(S) : i < j => loc_less(s[i], s[j])

\* Variant: the batches are left in the order they were yielded in.
arrival_order(p) ==
  \A i \in 1..Len(p) : p[i] = i

\* p, a permutation of the indexes of `batches`, is an order sorted() may
\* return: ascending in query_timestamp.  (Among batches with the same
\* query_timestamp the tuple comparison goes on to compare the two sets of
\* locations, a subset test; every order of them is allowed here.)
sorted_order(p) ==
  \A i, j \in 1..Len(p) :
    i < j => batches[p[i]].query_timestamp <= batches[p[j]].query_timestamp

IndexOrders(n) ==
  {p \in [1..n -> 1..n] : \A i, j \in 1..n : i # j => p[i] # p[j]}

\* The records of the batches taken in the order p, each batch's records in
\* sorted order: what the two for loops of locations() go through.
RECURSIVE Flatten(_, _)
Flatten(p, i) ==
  IF i > Len(p) THEN <<>>
  ELSE LET b == batches[p[i]]
           ls == sorted_locations(b.locs)
       IN [k \in 1..Len(ls) |->
             [batch |-> p[i], query |-> b.query_timestamp, loc |-> ls[k]]]
          \o Flatten(p, i + 1)

\* The input is exhausted: bodies() and query_data() return (a buffer with
\* no closing line is dropped), sorted() returns its list and the loops of
\* locations() start.
Sorted ==
  /\ pc = "bodies"
  /\ input = <<>>
  /\ \E p \in IndexOrders(Len(batches)) :
       /\ sorted_order(p)
       /\ order' = Flatten(p, 1)
  /\ pc' = "loop"
  /\ UNCHANGED <<input, consumed, body, framed, batches, taken,
                 query_timestamp, loc, previous_locations, out, warnings>>

\* The loops take the next record.
Take ==
  /\ taken < Len(order)
  /\ taken' = taken + 1
  /\ locations_step(order[taken + 1].loc, order[taken + 1].query)
  /\ UNCHANGED <<input, consumed, body, framed, batches, order>>

\* The loops are over: locations() returns.
Exhausted ==
  /\ pc = "loop"
  /\ taken = Len(order)
  /\ pc' = "end"
  /\ UNCHANGED <<input, consumed, body, framed, batches, order, taken,
                 query_timestamp, loc, previous_locations, out, warnings>>

Next ==
  \/ ReadLine
  \/ Sorted
  \/ Take
  \/ locations_resume
  \/ Exhausted

Spec == Init /\ [][Next]_vars

\* ------------------------------------------------------ csv(), read_csv()
\* str() of the values csv() writes: a timestamp in whole seconds, the
\* latitude and the longitude a vehicle line of the model can carry.
str_seconds(ms) == ToString(ms \div MsPerSecond) \o ".0"
str_lat == (0 :> "37.0")
str_lon == (0 :> "-122.0")

\* vehicle_location._fields
csv_header ==
  <<"timestamp", "id", "route", "dir", "lat", "lon", "heading", "speed">>

\* "'' if x is None else str(x) for x in loc": the fields of one line.  A
\* line is the sequence of its fields, what split(',') makes of the joined
\* text when no field holds a comma.
csv_fields(l) ==
  <<str_seconds(l.timestamp), ToString(l.id), l.route,
    IF l.dir = None THEN "" ELSE l.dir[1],
    str_lat[l.lat], str_lon[l.lon], ToString(l.heading), ToString(l.speed)>>

\* The lines csv() yields for the records locs that locations() yields.
csv(locs) == <<csv_header>> \o [i \in 1..Len(locs) |-> csv_fields(locs[i])]

\* The record read_csv builds from the fields of a line.
read_csv_fields(f) ==
  vehicle_location(float[f[1]], int[f[2]], f[3],
                   IF f[4] = "" THEN None ELSE <<f[4]>>,
                   float[f[5]], float[f[6]], int[f[7]], int[f[8]])

\* The records read_csv yields for the lines of a file: the header line is
\* skipped wherever it stands.
read_csv(lines) ==
  LET rows == SelectSeq(lines, LAMBDA f : f # csv_header)
  IN [i \in 1..Len(rows) |-> read_csv_fields(rows[i])]

\* ----------------------------------------------------------- SpecParser
\* The same pipeline on one response at a time, put together line by line
\* from well-formed and malformed lines, so that every check of
\* query_data() is met by a body that passes it and by one that does not.
\* Vehicle lines between <body> and <lastTime> in a response.
MaxVehicles == 2

VehicleWith(id, dirattrs, secs) ==
  Line("", "", "<vehicle ",
       <<Attr("id", id), Attr("routeTag", "A")>> \o dirattrs
       \o <<Attr("lat", "37.0000000"), Attr("lon", "-122.0000000"),
            Attr("secsSinceReport", secs), Attr("heading", "10"),
            Attr("speedKmHr", "5")>>,
       "/>")

\* <vehicle routeTag="A" id="7" .../>: every key, but id is not the first.
VehicleRouteFirst ==
  LET v == VehicleWith("7", <<>>, "0") IN
  [v EXCEPT !.attrs[1] = v.attrs[2], !.attrs[2] = v.attrs[1]]

\* <vehicle id="7" routeTag=A .../>: a value without its quotes.
VehicleUnquoted ==
  [VehicleWith("7", <<>>, "0") EXCEPT !.attrs[2].lq = FALSE,
                                      !.attrs[2].rq = FALSE]

ParserVehicleLines ==
  { VehicleWith("7", <<Attr("dirTag", "A_0")>>, "2"),
    VehicleWith("8", <<>>, "0"),
    \* the id of vehicle 7 written 07, an empty direction tag
    VehicleWith("07", <<Attr("dirTag", "")>>, "0"),
    \* a report dated after the feed's clock
    VehicleWith("8", <<Attr("dirTag", "A_0")>>, "-1"),
    VehicleNoHeading,
    VehicleRouteFirst,
    VehicleUnquoted,
    \* an id that is no integer
    VehicleWith("x", <<>>, "0"),
    ErrorOpen }

\* <body copyright="NextBus"/>: ends with "/> and not with ">.
BodySelfClosed == [BodyOpen EXCEPT !.tail = "/>"]

ParserBodyLines == {BodyOpen, BodySelfClosed, Text}

ParserLastLines ==
  {LastTime("5000"), LastTime("x"), ErrorClose, VehicleWith("8", <<>>, "0")}

\* What is in the buffer up to the header of the response: nothing, or a
\* capture that was cut, in a line or at the end of one.
ParserHeads ==
  { <<Xml>>,
    <<Xml, BodyOpen, VehicleWith("8", <<>>, "0"), Xml>>,
    <<Xml, BodyOpen, CutThenHeader>> }

ParserInputs ==
  { h \o <<l2>> \o vs \o <<lt, BodyClose>> :
      h \in ParserHeads, l2 \in ParserBodyLines,
      vs \in UNION {[1..n -> ParserVehicleLines] : n \in 0..MaxVehicles},
      lt \in ParserLastLines }

InitParser ==
  /\ input \in ParserInputs
  /\ consumed = <<>>
  /\ body = <<>>
  /\ framed = <<>>
  /\ batches = <<>>
  /\ order = <<>>
  /\ taken = 0
  /\ pc = "bodies"
  /\ query_timestamp = 0
  /\ loc = NoLoc
  /\ previous_locations = [v \in VehicleIds |-> <<>>]
  /\ out = <<>>
  /\ warnings = <<>>

SpecParser == InitParser /\ [][Next]_vars

\* ================================================================ claims
\* The duplicate predicate in the words of the specification.
DuplicateOf(L, prev) ==
  /\ Abs(L.timestamp - prev.timestamp) < SkewSeconds * MsPerSecond
  /\ L.route = prev.route
  /\ Abs(L.lat - prev.lat) < CoordTol
  /\ Abs(L.lon - prev.lon) < CoordTol
  /\ L.speed = prev.speed
  /\ (L.heading = prev.heading \/ L.speed = 0)

\* The accepted records of vehicle v, in acceptance order.
Accepted(v) == SelectSeq(out, LAMBDA l : l.id = v)

\* The last n elements of s (all of s when it is shorter).
LastN(s, n) == IF Len(s) <= n THEN s ELSE SubSeq(s, Len(s) - n + 1, Len(s))

\* The step in which the loop of locations() takes its next record.
TakesRecord == pc = "loop" /\ query_timestamp' # query_timestamp

\* C1: a record L is rejected (not emitted, history untouched) exactly when
\* some entry of history[L.id] is a duplicate of it in the sense of
\* DuplicateOf, speed 0 waiving the heading; in every other case L is emitted.
C1_RejectedIffDuplicate ==
  [][TakesRecord =>
       LET L == loc'
           H == previous_locations[L.id]
           dup == \E i \in 1..Len(H) : DuplicateOf(L, H[i])
       IN /\ dup => /\ out' = out
                    /\ previous_locations' = previous_locations
                    /\ pc' = "loop"
          /\ ~dup => /\ out' = Append(out, L)
                     /\ pc' = "yielded"]_vars

\* The specification's example: id 7, route A, speed 0, 2.0 seconds apart,
\* headings 10 and 95; the second record has been rejected.
C1_Witness ==
  /\ pc = "loop"
  /\ Fed = 2
  /\ out = <<L0>>
  /\ previous_locations[7] = <<L0>>
  /\ loc = [L0 EXCEPT !.timestamp = 2000, !.heading = 95]

\* C2: a history never holds more than 3 entries, and once a record is fully
\* processed it holds the last min(3, n) of the n records accepted for the
\* vehicle, in acceptance order (while the generator is suspended at its
\* yield, the record just yielded is not in it yet).
C2_HistoryIsLastThreeAccepted ==
  \A v \in VehicleIds :
    /\ Len(previous_locations[v]) <= 3
    /\ (pc = "loop" => previous_locations[v] = LastN(Accepted(v), 3))
    /\ (pc = "yielded" /\ loc.id = v =>
          previous_locations[v] =
            LastN(SubSeq(Accepted(v), 1, Len(Accepted(v)) - 1), 3))
    /\ (pc = "yielded" /\ loc.id # v =>
          previous_locations[v] = LastN(Accepted(v), 3))

\* Five records accepted for vehicle 7: the history is the 3rd, 4th and 5th,
\* and the 5th was compared against the 2nd, 3rd and 4th only.
C2_Witness ==
  /\ pc = "loop"
  /\ Len(Accepted(7)) = 5
  /\ previous_locations[7] = SubSeq(Accepted(7), 3, 5)

\* locations() run on the record sequence s from the histories hist: the
\* records it yields.
RECURSIVE Rerun(_, _)
Rerun(hist, s) ==
  IF s = <<>> THEN <<>>
  ELSE LET l == Head(s) IN
       IF seen_recently(l, hist[l.id])
       THEN Rerun(hist, Tail(s))
       ELSE <<l>> \o Rerun([hist EXCEPT ![l.id] = track(@, l)], Tail(s))

EmptyHistory == [v \in VehicleIds |-> <<>>]

\* C3: feeding the accepted output of one vehicle to a deduplicator with an
\* empty history yields that same sequence, nothing rejected.
C3_Idempotent ==
  \A v \in VehicleIds : Rerun(EmptyHistory, Accepted(v)) = Accepted(v)

\* An output of four accepted records that a rejection has thinned.
C3_Witness ==
  /\ pc = "loop"
  /\ Fed = 5
  /\ Len(Accepted(7)) = 4
  /\ Rerun(EmptyHistory, Accepted(7)) = Accepted(7)

\* C4, as claimed: no two accepted records of a vehicle are duplicates of
\* each other, however far apart in the accepted sequence.
C4_NoTwoAcceptedDuplicates ==
  \A v \in VehicleIds :
    \A i, j \in 1..Len(Accepted(v)) :
      i < j => ~DuplicateOf(Accepted(v)[j], Accepted(v)[i])

\* C4, amended: no two accepted records of a vehicle that are at most 3
\* places apart in its accepted sequence are duplicates of each other.
C4_NoDuplicateWithinThree ==
  \A v \in VehicleIds :
    \A i, j \in 1..Len(Accepted(v)) :
      i < j /\ j - i <= 3 => ~DuplicateOf(Accepted(v)[j], Accepted(v)[i])

\* Four accepted records of vehicle 7, the 4th three places after the 1st.
C4_Witness ==
  /\ Len(Accepted(7)) = 4
  /\ Fed > Len(out)
  /\ \A i, j \in 1..4 : i < j => ~DuplicateOf(Accepted(7)[j], Accepted(7)[i])

\* C5: a warning is logged for L exactly when L is accepted, the vehicle has
\* an accepted record already and L.timestamp <= the timestamp of the last
\* of them; L is then still emitted, and on resumption appended to the
\* history, the loop going on.
C5_WarningIffOutOfOrder ==
  /\ [][TakesRecord =>
          LET L == loc'
              acc == Accepted(L.id)
              late == acc # <<>> /\ L.timestamp <= Last(acc).timestamp
          IN /\ (warnings' # warnings) <=> (out' # out /\ late)
             /\ warnings' # warnings =>
                  /\ warnings' = Append(warnings,
                                        [query |-> query_timestamp', loc |-> L])
                  /\ out' = Append(out, L)
                  /\ pc' = "yielded"]_vars
  /\ [][pc = "yielded" =>
          /\ pc' = "loop"
          /\ Last(previous_locations'[loc.id]) = loc
          /\ warnings' = warnings /\ out' = out]_vars

\* A record accepted with a warning, appended to the history, and a later
\* record accepted after it.
C5_Witness ==
  /\ pc = "loop"
  /\ Len(warnings) = 1
  /\ Len(out) = 3
  /\ out[2] = warnings[1].loc
  /\ out[2].timestamp <= out[1].timestamp
  /\ out[1].id = out[2].id
  /\ previous_locations[out[2].id] = out

\* s is a subsequence of t.
RECURSIVE IsSubsequence(_, _)
IsSubsequence(s, t) ==
  IF s = <<>> THEN TRUE
  ELSE IF t = <<>> THEN FALSE
  ELSE IF Head(s) = Head(t) THEN IsSubsequence(Tail(s), Tail(t))
  ELSE IsSubsequence(s, Tail(t))

\* The records the loops of locations() have taken so far, in that order.
Processed == [i \in 1..taken |-> order[i].loc]

\* C6: whatever order query_data() yielded the batches in, the loops take
\* them in ascending query_timestamp, each batch whole and in one piece, its
\* records in ascending (timestamp, id) (the ids of a batch are distinct, so
\* this is the field-wise order); every record of every batch is taken once;
\* and the output is a subsequence of the records taken so far.
C6_ProcessingOrder ==
  pc \in {"loop", "yielded", "end"} =>
    /\ \A i, j \in 1..Len(order) :
         i < j =>
           /\ order[i].query <= order[j].query
           /\ order[i].batch = order[j].batch =>
                /\ \/ order[i].loc.timestamp < order[j].loc.timestamp
                   \/ /\ order[i].loc.timestamp = order[j].loc.timestamp
                      /\ order[i].loc.id < order[j].loc.id
                /\ \A k \in i..j : order[k].batch = order[i].batch
    /\ \A k \in 1..Len(batches) :
         LET at == {i \in 1..Len(order) : order[i].batch = k} IN
         /\ {order[i].loc : i \in at} = batches[k].locs
         /\ Cardinality(at) = Cardinality(batches[k].locs)
         /\ \A i \in at : order[i].query = batches[k].query_timestamp
    /\ \A i \in 1..Len(order) : order[i].batch \in 1..Len(batches)
    /\ IsSubsequence(out, Processed)

\* Two batches yielded in descending query_timestamp, the later-yielded one
\* (two vehicles) processed first, and a record of the other rejected.
C6_Witness ==
  /\ pc = "end"
  /\ Len(batches) = 2
  /\ batches[1].query_timestamp > batches[2].query_timestamp
  /\ order[1].batch = 2
  /\ Len(order) = 3
  /\ order[1].loc.id = 8 /\ order[2].loc.id = 7
  /\ order[1].loc.timestamp < order[2].loc.timestamp
  /\ Len(out) = 2

\* The body line and an opening Error line after the (last) header.
ErrorShaped(seg) ==
  /\ Len(seg) >= 4
  /\ starts_with_attr(strip(seg[2]), "<body ", "copyright")
  /\ ends_with_quote(strip(seg[2]), ">")
  /\ starts_with_error(strip(seg[3]))

\* C7, as claimed: a body whose third line is a whole Error element,
\* <Error shouldRetry="true">...</Error>, does not raise.
C7_ErrorElementLineSkipped ==
  pc = "raised" /\ HeaderIndexes(Last(framed)) # {} =>
    LET seg == last_segment(Last(framed)) IN
    ~(ErrorShaped(seg) /\ strip(seg[3]).tail = ">text</Error>")

\* C7, amended: a body whose third line opens an Error element and whose
\* second-to-last line, trimmed, is </Error> yields no batch and does not
\* raise, and the next lines are read; a body whose third line opens an
\* Error element and whose second-to-last line is anything else (the element
\* closed on the third line itself) raises.
C7_ErrorBatchSkipped ==
  [][framed' # framed /\ HeaderIndexes(Last(framed')) # {} =>
       LET seg == last_segment(Last(framed')) IN
       ErrorShaped(seg) =>
         IF TextEquals(strip(seg[Len(seg) - 1]), "</Error>")
         THEN pc' = "bodies" /\ batches' = batches
         ELSE pc' = "raised" /\ batches' = batches]_vars

\* An error batch skipped, and the body after it decoded and emitted.
C7_Witness ==
  /\ pc = "end"
  /\ Len(framed) = 2
  /\ framed[1] = <<Xml, BodyOpen, ErrorOpen, Text, ErrorClose, BodyClose>>
  /\ Len(batches) = 1
  /\ Len(out) = 1

\* C8: once a body fails in query_data() nothing is ever emitted: locations
\* are emitted only after the whole input was read and every framed body
\* decoded without an exception.
C8_NoPartialOutput ==
  /\ pc = "raised" => out = <<>> /\ order = <<>>
  /\ out # <<>> =>
       /\ input = <<>>
       /\ \A i \in 1..Len(framed) : ~query_data_body(framed[i]).raised

\* A well-formed body with a location was decoded, a later body failed, and
\* nothing has been emitted.
C8_Witness ==
  /\ pc = "raised"
  /\ Len(framed) = 2
  /\ Len(batches) = 1
  /\ ~query_data_body(framed[1]).raised
  /\ query_data_body(framed[2]).raised
  /\ out = <<>>

\* C9: bodies() yields a body exactly at a line whose trimmed text is
\* </body> while the first line of the buffer (that line included), trimmed,
\* is not <html>; the body is the buffer with that line, the buffer is empty
\* afterwards, bodies are yielded in input order, and the buffer is always
\* the lines read since the last reset.
C9_BodyAtClosingLine ==
  /\ [][consumed' # consumed =>
          LET line == Last(consumed')
              buf == Append(body, line)
              closes == /\ TextEquals(strip(line), "</body>")
                        /\ ~TextEquals(strip(buf[1]), "<html>")
          IN /\ closes => framed' = Append(framed, buf) /\ body' = <<>>
             /\ ~closes => framed' = framed]_vars
  /\ [](body = LastN(consumed, Len(body)))

\* Two bodies framed in input order, the second closed by an indented line.
C9_Witness ==
  /\ Len(framed) = 2
  /\ body = <<>>
  /\ framed[1] \o framed[2] = consumed
  /\ Last(consumed) = Indented(BodyClose)
  /\ Len(framed[1]) > 1

\* C10: while the first line of the buffer, trimmed, is <html>, no body is
\* yielded, not even at a </body> line; at the first </html> line the buffer
\* is emptied; a body that follows is framed as usual.
C10_ErrorPageDiscarded ==
  [][consumed' # consumed =>
       LET line == Last(consumed')
           buf == Append(body, line)
       IN TextEquals(strip(buf[1]), "<html>") =>
            /\ framed' = framed
            /\ body' = IF TextEquals(strip(line), "</html>") THEN <<>> ELSE buf]_vars

\* An error page holding a </body> line, discarded, and then a body framed.
C10_Witness ==
  /\ consumed = <<Indented(HtmlOpen), BodyClose, HtmlClose,
                  Lit(XmlHeader), BodyClose>>
  /\ framed = <<<<Lit(XmlHeader), BodyClose>>>>
  /\ body = <<>>

\* C11: when the input ends while the buffer is not empty, bodies() returns
\* without yielding those lines and without raising, and the bodies yielded
\* before are what they were.
C11_SilentTruncation ==
  [][pc = "bodies" /\ pc' # "bodies" =>
       /\ pc' = "end"
       /\ framed' = framed
       /\ consumed' = consumed]_vars

\* The input ended inside a body that had begun after a complete one.
C11_Witness ==
  /\ pc = "end"
  /\ Len(framed) = 1
  /\ body # <<>>
  /\ ~TextEquals(strip(body[1]), "<html>")
  /\ framed[1] \o body = consumed

\* C18: while the buffer starts with an <html> line and no </html> line
\* comes, no body is yielded, whatever comes: a whole response from its
\* header to its </body> line stays in the buffer.
C18_OpenErrorPageSwallows ==
  /\ [][consumed' # consumed /\ body # <<>>
          /\ TextEquals(strip(body[1]), "<html>")
          /\ ~TextEquals(strip(Last(consumed')), "</html>") =>
             /\ framed' = framed
             /\ body' = Append(body, Last(consumed'))]_vars
  /\ [](body # <<>> /\ TextEquals(strip(body[1]), "<html>") =>
          \A i \in 1..Len(body) : ~TextEquals(strip(body[i]), "</html>"))

\* An error page that never closes, with two whole responses inside it.
C18_Witness ==
  /\ pc = "end"
  /\ consumed = <<HtmlOpen, Lit(XmlHeader), BodyClose,
                  Lit(XmlHeader), Indented(BodyClose)>>
  /\ body = consumed
  /\ framed = <<>>

\* The lines c are, in order, the bodies f, error pages (from an <html> line
\* to the next </html> line) anywhere between them, and last the buffer b.
RECURSIVE Conserves(_, _, _)
Conserves(c, f, b) ==
  IF f = <<>> /\ c = b THEN TRUE
  ELSE IF c = <<>> THEN FALSE
  ELSE IF TextEquals(strip(c[1]), "<html>")
       THEN LET closes == {k \in 1..Len(c) : TextEquals(strip(c[k]), "</html>")}
            IN /\ closes # {}
               /\ Conserves(SubSeq(c, SetMin(closes) + 1, Len(c)), f, b)
       ELSE /\ f # <<>>
            /\ Len(Head(f)) <= Len(c)
            /\ SubSeq(c, 1, Len(Head(f))) = Head(f)
            /\ Conserves(SubSeq(c, Len(Head(f)) + 1, Len(c)), Tail(f), b)

\* The number of lines in the bodies f.
RECURSIVE TotalLen(_)
TotalLen(f) == IF f = <<>> THEN 0 ELSE Len(Head(f)) + TotalLen(Tail(f))

\* C19: the lines read are, in input order, the bodies yielded, the error
\* pages discarded between them and the buffer: every line is in at most one
\* body, a body is a run of consecutive input lines in their order, and no
\* line is carried from one body into the next.
C19_LinesConserved ==
  /\ Conserves(consumed, framed, body)
  /\ TotalLen(framed) + Len(body) <= Len(consumed)

\* An error page discarded, then a body yielded, then a buffer begun.
C19_Witness ==
  /\ Len(framed) = 1
  /\ body # <<>>
  /\ TextEquals(strip(consumed[1]), "<html>")
  /\ TotalLen(framed) + Len(body) < Len(consumed)
  /\ Len(framed[1]) >= 2

\* The lines of the body b from its last header line on.
FromLastHeader(b) ==
  LET h == CHOOSE i \in HeaderIndexes(b) : \A j \in HeaderIndexes(b) : j <= i
  IN SubSeq(b, h, Len(b))

\* C12: a body with several header lines is decoded as the lines from its
\* last header line on are when they come alone: the same batch or none,
\* and a failure for the one exactly when for the other.
C12_DecodedFromLastHeader ==
  [][framed' # framed /\ Cardinality(HeaderIndexes(Last(framed'))) >= 2 =>
       LET q == query_data_body(FromLastHeader(Last(framed'))) IN
       /\ batches' = batches \o q.yield
       /\ (pc' = "raised") = q.raised]_vars

\* A cut capture that held vehicle 8, and a retry that holds vehicle 7 only.
C12_Witness ==
  /\ framed # <<>>
  /\ Cardinality(HeaderIndexes(framed[1])) = 2
  /\ \E i \in 1..Len(framed[1]) : framed[1][i] = VehicleWith("8", <<>>, "0")
  /\ Len(batches) = 1
  /\ {l.id : l \in batches[1].locs} = {7}

\* The vehicle lines of a decoded body, the integer N of its lastTime line,
\* and the secsSinceReport and the id of its i-th vehicle line.
VehicleLinesOf(b) ==
  LET seg == FromLastHeader(b) IN SubSeq(seg, 3, Len(seg) - 2)
LastTimeOf(b) ==
  LET seg == FromLastHeader(b) IN int[seg[Len(seg) - 1].attrs[1].val]
AgeOf(b, i) == int[attr_value(VehicleLinesOf(b)[i].attrs, "secsSinceReport")]
IdOf(b, i) == int[attr_value(VehicleLinesOf(b)[i].attrs, "id")]

\* C13: the batch decoded from a body with lastTime N and vehicle ages r_v
\* has query_timestamp = N/1000 + min r_v, and each of its vehicles has
\* timestamp = query_timestamp - r_v.
C13_TimestampCorrection ==
  [][batches' # batches =>
       LET b == Last(framed')
           bt == Last(batches')
           n == Len(VehicleLinesOf(b))
       IN /\ bt.query_timestamp =
               LastTimeOf(b) + MsPerSecond * SetMin({AgeOf(b, i) : i \in 1..n})
          /\ Cardinality(bt.locs) = n
          /\ \A i \in 1..n : \E l \in bt.locs :
               /\ l.id = IdOf(b, i)
               /\ l.timestamp = bt.query_timestamp - MsPerSecond * AgeOf(b, i)]_vars

\* lastTime 5000 and one vehicle of age 2: polled at 7.0 s, reported at 5.0 s.
C13_Witness ==
  /\ Len(batches) = 1
  /\ LastTimeOf(framed[1]) = 5000
  /\ Len(VehicleLinesOf(framed[1])) = 1
  /\ AgeOf(framed[1], 1) = 2
  /\ batches[1].query_timestamp = 7000
  /\ \A l \in batches[1].locs : l.timestamp = 5000

\* Two of the lines between the second and the second-to-last line of the
\* body carry ids that are the same integer.
SameIdTwice(seg) ==
  \E i, j \in 3..(Len(seg) - 2) :
    /\ i < j
    /\ \A k \in {i, j} :
         /\ starts_with_attr(strip(seg[k]), "<vehicle ", "id")
         /\ seg[k].attrs[1].val \in DOMAIN int
    /\ int[seg[i].attrs[1].val] = int[seg[j].attrs[1].val]

\* C14: no two records of a batch have the same id; a body whose vehicle
\* lines are decoded (its third line opens no Error element) and hold the
\* same id twice makes query_data() raise, and no batch comes of it.
C14_IdsDistinct ==
  /\ [](\A k \in 1..Len(batches) : \A a, b \in batches[k].locs :
          a.id = b.id => a = b)
  /\ [][framed' # framed /\ HeaderIndexes(Last(framed')) # {}
          /\ SameIdTwice(FromLastHeader(Last(framed')))
          /\ ~starts_with_error(strip(FromLastHeader(Last(framed'))[3])) =>
             pc' = "raised" /\ batches' = batches]_vars

\* Vehicle 7 twice, as 7 and as 07, in a body with no other flaw.
C14_Witness ==
  /\ pc = "raised"
  /\ batches = <<>>
  /\ framed = << <<Xml, BodyOpen, VehicleWith("7", <<Attr("dirTag", "A_0")>>, "2"),
                   VehicleWith("07", <<Attr("dirTag", "")>>, "0"),
                   LastTime("5000"), BodyClose>> >>

\* The text <lastTime time="N"/> with N an integer.
IsLastTimeLine(l) ==
  /\ l.pre = "" /\ l.head = "<lastTime " /\ l.tail = "/>"
  /\ Len(l.attrs) = 1
  /\ l.attrs[1].name = "time" /\ l.attrs[1].eq = 1
  /\ l.attrs[1].lq /\ l.attrs[1].rq
  /\ l.attrs[1].val \in DOMAIN int

\* A vehicle line that carries every required key.
IsVehicleLine(l) ==
  /\ starts_with_attr(l, "<vehicle ", "id")
  /\ ends_with_quote(l, "/>")
  /\ RequiredKeys \subseteq {l.attrs[i].name : i \in 1..Len(l.attrs)}

\* The four conditions on the lines of a body, from its last header on.
WellFormed(seg) ==
  /\ Len(seg) >= 4
  /\ starts_with_attr(strip(seg[2]), "<body ", "copyright")
  /\ ends_with_quote(strip(seg[2]), ">")
  /\ TextEquals(strip(Last(seg)), "</body>")
  /\ IsLastTimeLine(strip(seg[Len(seg) - 1]))
  /\ \A i \in 3..(Len(seg) - 2) : IsVehicleLine(strip(seg[i]))

\* C15: a batch comes only of a body that meets the four conditions, and a
\* body that is no error batch (its third line opens no Error element) and
\* breaks one of them makes query_data() raise: no batch, no line skipped.
C15_ValidationSound ==
  [][framed' # framed /\ HeaderIndexes(Last(framed')) # {} =>
       LET seg == FromLastHeader(Last(framed')) IN
       /\ batches' # batches => WellFormed(seg)
       /\ (~WellFormed(seg)
           /\ ~(Len(seg) >= 3 /\ starts_with_error(strip(seg[3])))) =>
             pc' = "raised" /\ batches' = batches]_vars

\* A body whose one flaw is a vehicle line without heading, after a good one.
C15_Witness ==
  /\ pc = "raised"
  /\ batches = <<>>
  /\ framed = << <<Xml, BodyOpen, VehicleWith("7", <<Attr("dirTag", "A_0")>>, "2"),
                   VehicleNoHeading, LastTime("5000"), BodyClose>> >>

\* C20: in a batch, every timestamp is at most last_time, one of them is
\* last_time, and if no secsSinceReport is negative every timestamp is at
\* most query_timestamp.
C20_TimestampBounds ==
  [][batches' # batches =>
       LET b == Last(framed')
           bt == Last(batches')
           n == Len(VehicleLinesOf(b))
       IN /\ \A l \in bt.locs : l.timestamp <= LastTimeOf(b)
          /\ \E l \in bt.locs : l.timestamp = LastTimeOf(b)
          /\ (\A i \in 1..n : AgeOf(b, i) >= 0) =>
               \A l \in bt.locs : l.timestamp <= bt.query_timestamp]_vars

\* Two vehicles of ages 2 and 0 at lastTime 5000: reported at 3.0 and 5.0 s.
C20_Witness ==
  /\ Len(batches) = 1
  /\ LastTimeOf(framed[1]) = 5000
  /\ {AgeOf(framed[1], i) : i \in 1..Len(VehicleLinesOf(framed[1]))} = {0, 2}
  /\ {l.timestamp : l \in batches[1].locs} = {3000, 5000}
  /\ batches[1].query_timestamp = 5000

\* C16: the records that locations() yields, written by csv() and read by
\* read_csv, are the same records in the same order.
C16_CsvRoundTrip == pc = "end" => read_csv(csv(out)) = out

\* What the round trip does keep: every field but dir of every record, and
\* dir wherever it is absent or a non-empty text.
C16_RoundTripButEmptyDir ==
  pc = "end" =>
    LET back == read_csv(csv(out)) IN
    /\ Len(back) = Len(out)
    /\ \A i \in 1..Len(out) :
         back[i] = [out[i] EXCEPT !.dir = IF @ = <<"">> THEN None ELSE @]

\* locations() with an empty history, fed the entries es of one vehicle
\* alone: the records yielded, the warnings logged, the history left (h is
\* the history so far).
RECURSIVE AloneRun(_, _)
AloneRun(h, es) ==
  IF es = <<>> THEN [out |-> <<>>, warnings |-> <<>>, hist |-> h]
  ELSE LET l == Head(es).loc IN
       IF seen_recently(l, h) THEN AloneRun(h, Tail(es))
       ELSE LET r == AloneRun(track(h, l), Tail(es)) IN
            [out |-> <<l>> \o r.out,
             warnings |-> (IF out_of_order(l, h)
                           THEN <<[query |-> Head(es).query, loc |-> l]>>
                           ELSE <<>>) \o r.warnings,
             hist |-> r.hist]

\* The entries of vehicle v among those taken so far.
TakenOf(v) == SelectSeq(SubSeq(order, 1, taken), LAMBDA e : e.loc.id = v)

\* C17: a step changes the history of no vehicle but the one whose record
\* was just yielded, and a record that is rejected changes no history, no
\* output and no warning; so the records yielded and the warnings logged
\* for a vehicle, and its history, are those of a run on its records alone.
C17_VehiclesIndependent ==
  /\ [][/\ \A v \in VehicleIds :
             previous_locations'[v] # previous_locations[v] =>
               pc = "yielded" /\ loc.id = v
        /\ (TakesRecord /\ pc' = "loop") =>
             /\ previous_locations' = previous_locations
             /\ out' = out
             /\ warnings' = warnings]_vars
  /\ [](pc \in {"loop", "end"} =>
          \A v \in VehicleIds :
            LET r == AloneRun(<<>>, TakenOf(v)) IN
            /\ r.out = Accepted(v)
            /\ r.warnings = SelectSeq(warnings, LAMBDA w : w.loc.id = v)
            /\ r.hist = previous_locations[v])

\* Records of vehicles 7 and 8 in turn, one of each rejected, and a warning
\* for vehicle 7 after the records of vehicle 8.
C17_Witness ==
  /\ pc = "end"
  /\ Len(TakenOf(8)) = 2 /\ Len(Accepted(8)) = 1
  /\ Len(TakenOf(7)) = 3 /\ Len(Accepted(7)) = 2
  /\ Len(warnings) = 1 /\ warnings[1].loc.id = 7
  /\ order[3].loc.id = 8

====
